---------------------------- MODULE Spec2Model ----------------------------
(***************************************************************************)
(* Model of the Codex gateway of clewdr: the OAuth PKCE flow and the       *)
(* credential record (src/src/api/codex_oauth.rs), the upstream dispatcher *)
(* (src/src/codex_state/mod.rs) and the SSE stream translators             *)
(* (src/src/api/codex.rs).                                                 *)
(*                                                                         *)
(* Handlers run as concurrent tasks on a multi-threaded runtime.  A        *)
(* handler is cut into steps at the points where another task can observe  *)
(* or change shared state: each acquisition of the PENDING mutex, each     *)
(* CLEWDR_CONFIG.load() / rcu(), and each await on network or file I/O.    *)
(*                                                                         *)
(* Option<T> is modelled as a sequence: None is <<>>, Some(x) is <<x>>.    *)
(***************************************************************************)
EXTENDS Integers, Sequences, FiniteSets, TLC

\* ------------------------------------------------------------------ bounds
\* Number of /api/codex/oauth/start requests.
MaxStarts == 2
\* Number of /codex/oauth/callback requests.
MaxCallbacks == 2
\* Number of chat / legacy completion requests reaching start_upstream.
MaxDispatches == 1
\* Number of /api/codex/logout requests.
MaxLogouts == 1
\* Number of /api/codex/tokens requests.
MaxStatus == 1
\* Total number of requests of all kinds in one run of Spec.
MaxRequests == 3
\* Total number of requests of all kinds in one run of SpecRace.
MaxRaceRequests == 5
\* Number of SSE events the upstream sends on one response.
MaxEvents == 3
\* Number of SSE events on one response in SpecStatus.
MaxStatusEvents == 2
\* Number of pieces of a model name.
MaxNameLen == 5
\* Number of items of input_items.
MaxItems == 2
\* Number of messages of a request.
MaxMessages == 3

\* ------------------------------------------------------------------ options
None == <<>>
Some(x) == <<x>>
IsSome(o) == o # <<>>
Unwrap(o) == o[1]

\* The strings the model draws from: "" and " " are the blank ones
\* (str::trim leaves nothing of them).
BlankStrings == {"", " "}
trim_is_empty(s) == s \in BlankStrings

\* fn some_if_not_empty(s: String) -> Option<String>
some_if_not_empty(s) == IF trim_is_empty(s) THEN None ELSE Some(s)

\* fn option_if_not_empty(s: Option<String>) -> Option<String>
option_if_not_empty(o) ==
    IF IsSome(o) /\ ~trim_is_empty(Unwrap(o)) THEN o ELSE None

\* ------------------------------------------------------------------ id tokens
\* An id_token string, described by what parse_jwt_claim can observe of it:
\* text  - the string itself (only its blankness matters elsewhere),
\* segs  - the number of '.'-separated segments,
\* b64   - whether segment 1 decodes as unpadded URL-safe base64,
\* json  - whether the decoded bytes parse as JSON,
\* claim - payload["https://api.openai.com/auth"]["chatgpt_account_id"]
\*         when it exists and is a JSON string.
Jwt(text, segs, b64, json, claim) ==
    [text |-> text, segs |-> segs, b64 |-> b64, json |-> json, claim |-> claim]

JwtMissing == Jwt("", 1, FALSE, FALSE, None)
JwtNoClaim == Jwt("h.e30.s", 3, TRUE, TRUE, None)
JwtFor(text, acc) == Jwt(text, 3, TRUE, TRUE, Some(acc))

\* fn parse_jwt_claim(token, top_ns, key) -> Option<String>
parse_jwt_claim(token) ==
    IF token.segs # 3 THEN None
    ELSE IF ~token.b64 THEN None
    ELSE IF ~token.json THEN None
    ELSE token.claim

\* ------------------------------------------------------------------ records
\* struct CodexTokens (crate::config), CodexTokens::default() is all None.
CodexTokens(id, at, rt, acc, lr, key) ==
    [id_token |-> id, access_token |-> at, refresh_token |-> rt,
     account_id |-> acc, last_refresh |-> lr, api_key |-> key]

CodexTokensDefault == CodexTokens(None, None, None, None, None, None)

\* struct PendingOauth
PendingOauth(state, verifier, redirect) ==
    [state |-> state, code_verifier |-> verifier, redirect_uri |-> redirect]


\* ------------------------------------------------------------------ values
\* What the token endpoint can hand out to the c-th callback: tokens are
\* fresh per exchange, so distinct callbacks never receive the same ones.
AccessTokenOf(c) == <<"at1", "at2", "at3", "at4">>[c]
RefreshTokenOf(c) == <<"rt1", "rt2", "rt3", "rt4">>[c]
AccountOf(c) == <<"acc1", "acc2", "acc3", "acc4">>[c]
IdTokenOf(c) == JwtFor(<<"h.p1.s", "h.p2.s", "h.p3.s", "h.p4.s">>[c], AccountOf(c))

\* The JSON body of a 2xx token response, by the fields the callback reads
\* (a field that is missing or not a string reads as "").
TokenBody(id, at, rt) == [id_token |-> id, access_token |-> at, refresh_token |-> rt]
NoBody == TokenBody(JwtMissing, "", "")
TokenBodies(c) ==
    { TokenBody(IdTokenOf(c), AccessTokenOf(c), RefreshTokenOf(c)),  \* complete
      TokenBody(IdTokenOf(c), "", ""),                               \* no access_token
      TokenBody(JwtNoClaim, AccessTokenOf(c), RefreshTokenOf(c)),    \* no account claim
      NoBody }                                                       \* {} or unreadable

\* rand_hex(nbytes): a fresh value per draw (collisions of 32 random bytes are
\* not modelled); nonce 0 is a value rand_hex never produced.
rand_hex(nbytes, nonce) == [bytes |-> nbytes, nonce |-> nonce]
ForgedState == rand_hex(32, 0)

\* fn code_challenge_s256(verifier): base64url(SHA-256(verifier)), kept symbolic.
code_challenge_s256(verifier) == [s256 |-> verifier]

\* cfg.codex.oauth_redirect_prefix, a string as a sequence of pieces
\* ("/" is one piece), and the default prefix built from the server port.
RedirectPrefixes == { None, Some(<<"https://proxy.example", "/">>) }
DefaultPrefix == <<"http://localhost:", "port">>

RECURSIVE trim_end_matches(_, _)
trim_end_matches(s, ch) ==
    IF Len(s) > 0 /\ s[Len(s)] = ch THEN trim_end_matches(SubSeq(s, 1, Len(s) - 1), ch)
    ELSE s

RedirectUri(prefixOpt) ==
    LET prefix == IF IsSome(prefixOpt) THEN Unwrap(prefixOpt) ELSE DefaultPrefix
    IN  trim_end_matches(prefix, "/") \o <<"/codex/oauth/callback">>

\* The credential record a previous run of the gateway left in the
\* configuration file after a complete login.
StoredTokens ==
    CodexTokens(Some("h.p0.s"), Some("at0"), Some("rt0"), Some("acc0"), Some(0),
                Some("sk-0"))

\* ------------------------------------------------------------------ state
VARIABLES
    PENDING,      \* static PENDING: Option<PendingOauth>
    tokens,       \* CLEWDR_CONFIG ... codex.tokens, the in-memory record
    saved,        \* codex.tokens of the configuration file on disk
    now,          \* Utc::now(), a logical clock
    issued,       \* history: per completed start, its PendingOauth and auth_url
    cb,           \* callback requests
    lo,           \* logout requests
    dp,           \* dispatches (start_upstream calls)
    status_out,   \* replies of /api/codex/tokens
    loggedOut     \* history: a logout completed and no complete login since

oauthVars == <<PENDING, tokens, saved, now, issued, cb, lo, dp, status_out, loggedOut>>

\* A field of the record that is present and not blank.
Present(o) == IsSome(o) /\ ~trim_is_empty(Unwrap(o))
HasBoth(t) == Present(t.access_token) /\ Present(t.account_id)

\* A handler's locals exist only while it runs: they are reset when it is
\* done with them.  `q` (the query) and `result` (the page rendered) are
\* kept as the record of what the request was and got.  `retry` is history:
\* when the request began, a callback with the same query had already ended
\* in "Token exchange failed".
NoQuery == [error |-> None, code |-> None, state |-> None]
CallbackIdle ==
    [pc |-> "idle", q |-> NoQuery, p |-> None, body |-> NoBody,
     snap |-> CodexTokensDefault, result |-> "", retry |-> FALSE]
LogoutIdle == [pc |-> "idle", snap |-> CodexTokensDefault, fullAfter |-> FALSE]
\* paired, sawBoth, afterLogout, fullSince are history: the account_id of the
\* record version the access token was read from; whether some record version
\* current during the call had both fields; whether the call began in a
\* logged-out period; whether a complete login was written during the call.
DispatchIdle ==
    [pc |-> "idle", access_token |-> None, account_id |-> None, result |-> "",
     paired |-> None, sawBoth |-> FALSE, afterLogout |-> FALSE, fullSince |-> FALSE]

InitOAuth ==
    /\ PENDING = None
    /\ tokens \in {CodexTokensDefault, StoredTokens}
    /\ saved = tokens
    /\ now = 0
    /\ issued = <<>>
    /\ cb = [c \in 1..MaxCallbacks |-> CallbackIdle]
    /\ lo = [l \in 1..MaxLogouts |-> LogoutIdle]
    /\ dp = [d \in 1..MaxDispatches |-> DispatchIdle]
    /\ status_out = <<>>
    /\ loggedOut = FALSE

\* ------------------------------------------------------------------ writes
\* A replacement of the credential record (CLEWDR_CONFIG.rcu): the closure is
\* re-run until its swap succeeds, so the read-modify-write is one step.
\* login: the write is a callback's.
InstallTokens(t, login) ==
    /\ tokens' = t
    /\ dp' = [d \in DOMAIN dp |->
                IF dp[d].pc = "account"
                THEN [dp[d] EXCEPT !.sawBoth = @ \/ HasBoth(t),
                                   !.fullSince = @ \/ (login /\ HasBoth(t))]
                ELSE dp[d]]
    /\ lo' = [l \in DOMAIN lo |->
                IF login /\ HasBoth(t) /\ lo[l].pc \in {"load", "save"}
                THEN [lo[l] EXCEPT !.fullAfter = TRUE]
                ELSE lo[l]]
    /\ loggedOut' = (loggedOut /\ ~(login /\ HasBoth(t)))

\* ------------------------------------------------------------------ start
\* GET /api/codex/oauth/start.  The only shared state it touches is the
\* PENDING slot, replaced under the mutex in one step.
AuthUrl(redirect_uri, code_challenge, state) ==
    [response_type |-> "code", client_id |-> "effective_client_id",
     redirect_uri |-> redirect_uri,
     scope |-> "openid profile email offline_access",
     code_challenge |-> code_challenge, code_challenge_method |-> "S256",
     id_token_add_organizations |-> "true", codex_cli_simplified_flow |-> "true",
     state |-> state]

\* A slot that keeps an entry it already holds.
StorePendingKeepFirst(old, new) == IF IsSome(old) THEN old ELSE Some(new)

\* Lines 71-78: *guard = Some(PendingOauth {..}).
StorePending(old, new) == Some(new)

api_codex_oauth_start(prefix) ==
    /\ Len(issued) < MaxStarts
    /\ LET draws == 2 * Len(issued)
           redirect_uri == RedirectUri(prefix)
           code_verifier == rand_hex(64, draws + 1)
           code_challenge == code_challenge_s256(code_verifier)
           state == rand_hex(32, draws + 2)
           new == PendingOauth(state, code_verifier, redirect_uri)
       IN  /\ PENDING' = StorePending(PENDING, new)
           /\ issued' = Append(issued,
                  [pending |-> new,
                   auth_url |-> AuthUrl(redirect_uri, code_challenge, state)])
    /\ UNCHANGED <<tokens, saved, now, cb, lo, dp, status_out, loggedOut>>

\* ------------------------------------------------------------------ callback
\* GET /codex/oauth/callback.  The state values a browser can present: one a
\* start handed out, or one nobody issued.
KnownStates == { issued[i].pending.state : i \in 1..Len(issued) } \cup {ForgedState}

CallbackQueries ==
    { [error |-> Some("access_denied"), code |-> None, state |-> None],
      [error |-> None, code |-> None, state |-> Some(ForgedState)],
      [error |-> None, code |-> Some("code"), state |-> None] }
    \cup { [error |-> None, code |-> Some("code"), state |-> Some(s)] : s \in KnownStates }

\* A comparison that only looks at the length of the two values.
StateMatchesByLength(p, state) == p.state.bytes = state.bytes

\* Line 123: the state comparison of the callback.
StateMatches(p, state) == p.state = state

\* Lines 101-125: the query checks and the read of PENDING under the mutex.
CallbackCheck(q, pending) ==
    IF IsSome(q.error) THEN "Login error"
    ELSE IF ~(IsSome(q.code) /\ IsSome(q.state)) THEN "Invalid callback"
    ELSE IF ~IsSome(pending) THEN "No pending login or it expired"
    ELSE IF ~StateMatches(Unwrap(pending), Unwrap(q.state)) THEN "State mismatch"
    ELSE "exchange"

\* Some callback with query q has ended in "Token exchange failed".
FailedBefore(q) ==
    \E e \in DOMAIN cb : cb[e].q = q /\ cb[e].result = "Token exchange failed"

\* A callback that takes the entry out of the slot when it accepts the state.
api_codex_oauth_callback_check_taking(c, q) ==
    /\ cb[c].pc = "idle"
    /\ c > 1 => cb[c - 1].pc # "idle"
    /\ LET verdict == CallbackCheck(q, PENDING)
       IN  /\ cb' = [cb EXCEPT ![c] =
                 IF verdict = "exchange"
                 THEN [@ EXCEPT !.pc = "exchange", !.q = q, !.p = PENDING,
                                !.retry = FailedBefore(q)]
                 ELSE [@ EXCEPT !.pc = "done", !.q = q, !.result = verdict,
                                !.retry = FailedBefore(q)]]
           /\ PENDING' = IF verdict = "exchange" THEN None ELSE PENDING
    /\ UNCHANGED <<tokens, saved, now, issued, lo, dp, status_out, loggedOut>>

api_codex_oauth_callback_check(c, q) ==
    /\ cb[c].pc = "idle"
    /\ c > 1 => cb[c - 1].pc # "idle"
    /\ LET verdict == CallbackCheck(q, PENDING)
       IN  cb' = [cb EXCEPT ![c] =
                IF verdict = "exchange"
                THEN [@ EXCEPT !.pc = "exchange", !.q = q, !.p = PENDING,
                               !.retry = FailedBefore(q)]
                ELSE [@ EXCEPT !.pc = "done", !.q = q, !.result = verdict,
                               !.retry = FailedBefore(q)]]
    /\ UNCHANGED <<PENDING, tokens, saved, now, issued, lo, dp, status_out, loggedOut>>

\* Lines 127-179: the POST to the token endpoint (form: code, redirect_uri,
\* client_id, code_verifier of the cloned entry) and its three outcomes.
ExchangeOutcomes(c) ==
    { [kind |-> "transport_error", body |-> NoBody],
      [kind |-> "non_2xx", body |-> NoBody] }
    \cup { [kind |-> "ok", body |-> b] : b \in TokenBodies(c) }

\* An exchange whose transport failure empties the slot.
api_codex_oauth_callback_exchange_clearing(c, outcome) ==
    /\ cb[c].pc = "exchange"
    /\ cb' = [cb EXCEPT ![c] =
          IF outcome.kind = "transport_error"
          THEN [@ EXCEPT !.pc = "done", !.p = None, !.result = "Token exchange failed"]
          ELSE IF outcome.kind = "non_2xx"
          THEN [@ EXCEPT !.pc = "done", !.p = None, !.result = "Token endpoint error"]
          ELSE [@ EXCEPT !.pc = "persist", !.p = None, !.body = outcome.body]]
    /\ PENDING' = IF outcome.kind = "transport_error" THEN None ELSE PENDING
    /\ UNCHANGED <<tokens, saved, now, issued, lo, dp, status_out, loggedOut>>

api_codex_oauth_callback_exchange(c, outcome) ==
    /\ cb[c].pc = "exchange"
    /\ cb' = [cb EXCEPT ![c] =
          IF outcome.kind = "transport_error"
          THEN [@ EXCEPT !.pc = "done", !.p = None, !.result = "Token exchange failed"]
          ELSE IF outcome.kind = "non_2xx"
          THEN [@ EXCEPT !.pc = "done", !.p = None, !.result = "Token endpoint error"]
          ELSE [@ EXCEPT !.pc = "persist", !.p = None, !.body = outcome.body]]
    /\ UNCHANGED <<PENDING, tokens, saved, now, issued, lo, dp, status_out, loggedOut>>

\* Lines 181-217: the record the callback builds from the token response.
CallbackTokens(body, conf, timestamp) ==
    CodexTokens(some_if_not_empty(body.id_token.text),
                some_if_not_empty(body.access_token),
                some_if_not_empty(body.refresh_token),
                option_if_not_empty(parse_jwt_claim(body.id_token)),
                Some(timestamp),
                conf.api_key)

api_codex_oauth_callback_rcu(c) ==
    /\ cb[c].pc = "persist"
    /\ now' = now + 1
    /\ InstallTokens(CallbackTokens(cb[c].body, tokens, now + 1), TRUE)
    /\ cb' = [cb EXCEPT ![c].pc = "load", ![c].body = NoBody]
    /\ UNCHANGED <<PENDING, saved, issued, status_out>>

\* Line 218: CLEWDR_CONFIG.load() takes the snapshot that save() will write.
api_codex_oauth_callback_load(c) ==
    /\ cb[c].pc = "load"
    /\ cb' = [cb EXCEPT ![c].pc = "save", ![c].snap = tokens]
    /\ UNCHANGED <<PENDING, tokens, saved, now, issued, lo, dp, status_out, loggedOut>>

\* Lines 218-220: save().await writes the snapshot; a failure is only logged.
api_codex_oauth_callback_save(c, ok) ==
    /\ cb[c].pc = "save"
    /\ saved' = IF ok THEN cb[c].snap ELSE saved
    /\ cb' = [cb EXCEPT ![c].pc = "clear", ![c].snap = CodexTokensDefault]
    /\ UNCHANGED <<PENDING, tokens, now, issued, lo, dp, status_out, loggedOut>>

\* Lines 222-231: the slot is cleared, whatever it holds by now.
api_codex_oauth_callback_clear(c) ==
    /\ cb[c].pc = "clear"
    /\ PENDING' = None
    /\ cb' = [cb EXCEPT ![c].pc = "done", ![c].result = "Login successful"]
    /\ UNCHANGED <<tokens, saved, now, issued, lo, dp, status_out, loggedOut>>

\* ------------------------------------------------------------------ logout
\* POST /api/codex/logout, lines 248-252: the record is reset to the default.
api_codex_logout_rcu(l) ==
    /\ lo[l].pc = "idle"
    /\ l > 1 => lo[l - 1].pc # "idle"
    /\ tokens' = CodexTokensDefault
    /\ dp' = dp
    /\ loggedOut' = loggedOut
    /\ lo' = [lo EXCEPT ![l].pc = "load", ![l].fullAfter = FALSE]
    /\ UNCHANGED <<PENDING, saved, now, issued, cb, status_out>>

\* Line 253: the snapshot that save() will write.
api_codex_logout_load(l) ==
    /\ lo[l].pc = "load"
    /\ lo' = [lo EXCEPT ![l].pc = "save", ![l].snap = tokens]
    /\ UNCHANGED <<PENDING, tokens, saved, now, issued, cb, dp, status_out, loggedOut>>

\* Lines 253-256: the file write, then the reply {"ok": true}.
api_codex_logout_save(l, ok) ==
    /\ lo[l].pc = "save"
    /\ saved' = IF ok THEN lo[l].snap ELSE saved
    /\ lo' = [lo EXCEPT ![l].pc = "done", ![l].snap = CodexTokensDefault,
                        ![l].fullAfter = FALSE]
    /\ loggedOut' = (loggedOut \/ ~lo[l].fullAfter)
    /\ UNCHANGED <<PENDING, tokens, now, issued, cb, dp, status_out>>

\* ------------------------------------------------------------------ dispatch
\* CodexState::start_upstream, called by codex_chat_completions and by
\* codex_completions.  Lines 186-194: the first load of the record.
NotAuthenticated == "BadRequest: Codex not authenticated. Use /api/codex/oauth/start"
MissingAccountId == "BadRequest: Codex missing account_id"

start_upstream_access_token(d) ==
    /\ dp[d].pc = "idle"
    /\ d > 1 => dp[d - 1].pc # "idle"
    /\ dp' = [dp EXCEPT ![d] =
          IF IsSome(tokens.access_token)
          THEN [@ EXCEPT !.pc = "account", !.access_token = tokens.access_token,
                         !.paired = tokens.account_id, !.sawBoth = HasBoth(tokens),
                         !.afterLogout = loggedOut]
          ELSE [@ EXCEPT !.pc = "done", !.result = NotAuthenticated,
                         !.sawBoth = HasBoth(tokens), !.afterLogout = loggedOut]]
    /\ UNCHANGED <<PENDING, tokens, saved, now, issued, cb, lo, status_out, loggedOut>>

\* Lines 195-239: the second load of the record, then the request is built
\* from the two values read and sent.
start_upstream_account_id(d) ==
    /\ dp[d].pc = "account"
    /\ dp' = [dp EXCEPT ![d] =
          IF IsSome(tokens.account_id)
          THEN [@ EXCEPT !.pc = "done", !.account_id = tokens.account_id,
                         !.result = "sent"]
          ELSE [@ EXCEPT !.pc = "done", !.access_token = None,
                         !.result = MissingAccountId]]
    /\ UNCHANGED <<PENDING, tokens, saved, now, issued, cb, lo, status_out, loggedOut>>

\* ------------------------------------------------------------------ status
\* CodexConfig::is_authenticated (crate::config).
is_authenticated(t) == Present(t.access_token)

\* Line 241: tokens.access_token.as_ref().map(|s| !s.is_empty()).unwrap_or(false)
has_access_token(t) == IsSome(t.access_token) /\ Unwrap(t.access_token) # ""

\* A status handler that stamps the record it reports on.
api_codex_tokens_stamping ==
    /\ Len(status_out) < MaxStatus
    /\ tokens' = [tokens EXCEPT !.last_refresh = Some(now + 1)]
    /\ status_out' = Append(status_out,
          [authenticated |-> is_authenticated(tokens),
           account_id |-> tokens.account_id,
           has_access_token |-> has_access_token(tokens),
           last_refresh |-> tokens.last_refresh])
    /\ UNCHANGED <<PENDING, saved, now, issued, cb, lo, dp, loggedOut>>

\* GET /api/codex/tokens: one load of the record, then the reply.
api_codex_tokens ==
    /\ Len(status_out) < MaxStatus
    /\ status_out' = Append(status_out,
          [authenticated |-> is_authenticated(tokens),
           account_id |-> tokens.account_id,
           has_access_token |-> has_access_token(tokens),
           last_refresh |-> tokens.last_refresh])
    /\ UNCHANGED <<PENDING, tokens, saved, now, issued, cb, lo, dp, loggedOut>>

\* ------------------------------------------------------------------ stream
\* One streaming response (stream = true) of codex_chat_completions or of
\* codex_completions, after the upstream answered 2xx.
VARIABLES
    target,         \* "chat" or "legacy": which handler serves the stream
    include_usage,  \* stream_options.include_usage of the request
    upstream,       \* the SSE events the upstream has sent, in arrival order
    upstream_open,  \* the upstream has not ended its response yet
    consumed,       \* number of upstream events the translator has taken
    out,            \* the SSE events handed to the client, in order
    out_open        \* the outbound stream has not ended yet

streamVars == <<target, include_usage, upstream, upstream_open, consumed, out, out_open>>

\* created and model_out are computed once, before the stream starts.
Created == "unix_time"
ModelOut == "requested_model"

\* The data of an upstream event, by what the translators and the aggregator
\* read of it.  json: the data parses as JSON; type: its "type" ("" when it
\* is missing); response_id: response.id; delta: "delta"; item: "item"
\* (item.type "" when there is none); usage: response.usage; error_message:
\* response.error.message.  Fields that are absent or not strings are None.
Item(type, call_id, id, name, arguments) ==
    [type |-> type, call_id |-> call_id, id |-> id, name |-> name,
     arguments |-> arguments]
NoItem == Item("", None, None, None, None)
Data(json, type, response_id, delta, item, usage, error_message) ==
    [json |-> json, type |-> type, response_id |-> response_id, delta |-> delta,
     item |-> item, usage |-> usage, error_message |-> error_message]
NoData == Data(FALSE, "", None, None, NoItem, None, None)

UpstreamData ==
    { NoData,                                                      \* not JSON
      Data(TRUE, "", None, None, NoItem, None, None),                \* no type
      Data(TRUE, "response.created", Some("resp_1"), None, NoItem, None, None),
      Data(TRUE, "response.output_text.delta", None, Some("He"), NoItem, None, None),
      Data(TRUE, "response.output_text.delta", Some("resp_2"), Some("llo"), NoItem,
           None, None),
      Data(TRUE, "response.output_text.delta", None, None, NoItem, None, None),
      Data(TRUE, "response.output_item.done", None, None,
           Item("function_call", Some("call_1"), Some("fc_1"), Some("f"), Some("{}")),
           None, None),
      Data(TRUE, "response.output_item.done", None, None,
           Item("function_call", None, Some("fc_2"), None, None), None, None),
      Data(TRUE, "response.output_item.done", None, None,
           Item("message", None, Some("msg_1"), None, None), None, None),
      Data(TRUE, "response.output_text.done", None, None, NoItem, None, None),
      Data(TRUE, "response.failed", Some("resp_1"), None, NoItem, None, Some("boom")),
      Data(TRUE, "response.failed", None, None, NoItem, None, None),
      Data(TRUE, "response.completed", Some("resp_1"), None, NoItem, Some(5), None),
      Data(TRUE, "response.completed", None, None, NoItem, None, None) }

\* An upstream SSE event: its id and event fields and its data.
SseEvent(id, data) == [id |-> id, event |-> data.type, data |-> data]

unwrap_or(o, default) == IF IsSome(o) THEN Unwrap(o) ELSE default

\* An outbound SSE event.  forwarded: the data is the upstream event's own
\* (out_event.data(event.data)), kept in raw; otherwise the data is the JSON
\* object described by the remaining fields.
ToolCall(index, id, name, arguments) ==
    [index |-> index, id |-> id, type |-> "function", name |-> name,
     arguments |-> arguments]
OutEvent(ev, forwarded, raw, id, object, content, text, tool_calls, finish_reason, usage, error) ==
    [id |-> ev.id, event |-> ev.event, forwarded |-> forwarded, raw |-> raw,
     chunk_id |-> id, object |-> object,
     created |-> IF object = "" THEN "" ELSE Created,
     model |-> IF object = "" THEN "" ELSE ModelOut,
     content |-> content, text |-> text, tool_calls |-> tool_calls,
     finish_reason |-> finish_reason, usage |-> usage, error |-> error]
Forward(ev) ==
    OutEvent(ev, TRUE, ev.data, None, "", None, None, None, None, None, None)

\* An item test that accepts every item.
is_any_item(item) == TRUE

\* Line 185: item.get("type").and_then(|v| v.as_str()) == Some("function_call")
is_function_call(item) == item.type = "function_call"

\* A response.failed event handed on as it came.
chat_failed_forwarded(ev) == Forward(ev)

\* Lines 213-217: the in-band error object of a response.failed event.
chat_failed_chunk(ev) ==
    OutEvent(ev, FALSE, NoData, None, "", None, None, None, None, None,
             Some(unwrap_or(ev.data.error_message, "response.failed")))

\* codex_chat_completions, lines 161-236: the closure given to map_ok.
chat_stream_event(ev, usage_wanted) ==
    LET v == ev.data
        kind == v.type
        response_id == unwrap_or(v.response_id, "chatcmpl-stream")
        chunk(content, tool_calls, finish_reason, usage) ==
            OutEvent(ev, FALSE, NoData, Some(response_id), "chat.completion.chunk",
                     content, None, tool_calls, finish_reason, usage, None)
    IN  IF ~v.json THEN Forward(ev)
        ELSE IF kind = "response.output_text.delta"
        THEN chunk(Some(unwrap_or(v.delta, "")), None, None, None)
        ELSE IF kind = "response.output_item.done" /\ is_function_call(v.item)
        THEN chunk(None,
                   Some(ToolCall(0,
                        unwrap_or(IF IsSome(v.item.call_id) THEN v.item.call_id
                                  ELSE v.item.id, ""),
                        unwrap_or(v.item.name, ""),
                        unwrap_or(v.item.arguments, ""))),
                   None, None)
        ELSE IF kind = "response.output_text.done"
        THEN chunk(None, None, Some("stop"), None)
        ELSE IF kind = "response.failed"
        THEN chat_failed_chunk(ev)
        ELSE IF kind = "response.completed" /\ usage_wanted /\ IsSome(v.usage)
        THEN chunk(None, None, None, v.usage)
        ELSE Forward(ev)

\* codex_completions, lines 390-441: the closure given to map_ok.
completions_stream_event(ev, usage_wanted) ==
    LET v == ev.data
        kind == v.type
        response_id == unwrap_or(v.response_id, "cmpl-stream")
        chunk(text, finish_reason, usage) ==
            OutEvent(ev, FALSE, NoData, Some(response_id), "text_completion.chunk",
                     None, Some(text), None, finish_reason, usage, None)
    IN  IF ~v.json THEN Forward(ev)
        ELSE IF kind = "response.output_text.delta"
        THEN chunk(unwrap_or(v.delta, ""), None, None)
        ELSE IF kind = "response.output_text.done"
        THEN chunk("", Some("stop"), None)
        ELSE IF kind = "response.completed" /\ usage_wanted /\ IsSome(v.usage)
        THEN chunk("", None, v.usage)
        ELSE Forward(ev)

stream_event(ev) ==
    IF target = "chat" THEN chat_stream_event(ev, include_usage)
    ELSE completions_stream_event(ev, include_usage)

\* A filter_map in place of map_ok: events that need no translation are dropped.
MapOkDroppingForwarded(sent, ev) ==
    IF stream_event(ev).forwarded THEN sent ELSE Append(sent, stream_event(ev))

\* TryStreamExt::map_ok (lines 161, 390): each Ok item of the upstream event
\* stream becomes exactly one item of the outbound stream.
MapOk(sent, ev) == Append(sent, stream_event(ev))

InitStreamIdle ==
    /\ target = "chat"
    /\ include_usage = FALSE
    /\ upstream = <<>>
    /\ upstream_open = FALSE
    /\ consumed = 0
    /\ out = <<>>
    /\ out_open = FALSE

InitStream ==
    /\ target \in {"chat", "legacy"}
    /\ include_usage \in BOOLEAN
    /\ upstream = <<>>
    /\ upstream_open = TRUE
    /\ consumed = 0
    /\ out = <<>>
    /\ out_open = TRUE

\* The upstream sends one more event.
upstream_sends(data) ==
    /\ upstream_open
    /\ Len(upstream) < MaxEvents
    /\ upstream' = Append(upstream, SseEvent(Len(upstream) + 1, data))
    /\ UNCHANGED <<target, include_usage, upstream_open, consumed, out, out_open>>

\* The upstream ends its response (or the connection fails).
upstream_ends ==
    /\ upstream_open
    /\ upstream_open' = FALSE
    /\ UNCHANGED <<target, include_usage, upstream, consumed, out, out_open>>

\* The client polls the outbound stream and an upstream event is there: the
\* closure translates it.
stream_poll_event ==
    /\ out_open
    /\ consumed < Len(upstream)
    /\ consumed' = consumed + 1
    /\ out' = MapOk(out, upstream[consumed + 1])
    /\ UNCHANGED <<target, include_usage, upstream, upstream_open, out_open>>

\* The client polls and the upstream stream is exhausted: the outbound
\* stream ends.
stream_poll_end ==
    /\ out_open
    /\ ~upstream_open
    /\ consumed = Len(upstream)
    /\ out_open' = FALSE
    /\ UNCHANGED <<target, include_usage, upstream, upstream_open, consumed, out>>

\* ------------------------------------------------------------------ calls
\* Calls of the pure functions of codex_state.
VARIABLES
    norm,      \* a model name, its normalization, and the normalization of that
    sessions,  \* two calls of ensure_session_id: arguments and result
    conv       \* the messages of a request, its instructions and input items

callVars == <<norm, sessions, conv>>

SeqsUpTo(S, n) == UNION {[1..k -> S] : k \in 0..n}

\* str::trim on a string given as a sequence of pieces; " " is whitespace.
RECURSIVE trim_start(_)
trim_start(str) ==
    IF str # <<>> /\ Head(str) = " " THEN trim_start(Tail(str)) ELSE str
trim(str) == trim_end_matches(trim_start(str), " ")

\* A model name is a sequence of pieces: a stem, a separator, an effort
\* word, ":" or " ".  No stem ends in a separator followed by an effort
\* word, so ends_with on the string is a test of the last two pieces.
Stems ==
    {"gpt5", "gpt-5", "gpt-5-latest", "codex", "codex-mini", "codex-mini-latest", "o3"}
Separators == {"-", "_"}
Efforts == {"minimal", "low", "medium", "high"}
NamePieces == {"gpt-5", "o3", "-", "_", "low", "HIGH", ":", " "}
ModelNames ==
    SeqsUpTo(NamePieces, MaxNameLen)
    \cup {<<stem>> : stem \in Stems}
    \cup {<<stem, sep, effort>> : stem \in Stems, sep \in Separators, effort \in Efforts}
ModelNameInputs == {None} \cup {Some(name) : name \in ModelNames}

\* str::to_lowercase on one piece.
to_lowercase(piece) == IF piece = "HIGH" THEN "high" ELSE piece

\* name.split(':').next()
RECURSIVE split_colon_first(_)
split_colon_first(str) ==
    IF str = <<>> \/ Head(str) = ":" THEN <<>>
    ELSE <<Head(str)>> \o split_colon_first(Tail(str))

\* Lines 41-50: one pass of the loop over sep; at most one suffix is cut.
strip_effort(base, sep) ==
    IF /\ Len(base) >= 2
       /\ base[Len(base) - 1] = sep
       /\ to_lowercase(base[Len(base)]) \in Efforts
    THEN SubSeq(base, 1, Len(base) - 2)
    ELSE base

\* Lines 40-50: for sep in ['-', '_'] { ... }
strip_efforts(base) == strip_effort(strip_effort(base, "-"), "_")

\* Lines 51-55: the alias table.
model_alias(base) ==
    IF base \in {<<"gpt5">>, <<"gpt-5-latest">>, <<"gpt-5">>} THEN <<"gpt-5">>
    ELSE IF base \in {<<"codex">>, <<"codex-mini">>, <<"codex-mini-latest">>}
    THEN <<"codex-mini-latest">>
    ELSE base

\* CodexState::normalize_model_name
normalize_model_name(name) ==
    IF ~IsSome(name) \/ trim(Unwrap(name)) = <<>> THEN <<"gpt-5">>
    ELSE model_alias(strip_efforts(trim(split_colon_first(trim(Unwrap(name))))))

NormIdle(input) == [pc |-> "idle", input |-> input, once |-> <<>>, twice |-> <<>>]

\* A request names a model: codex.rs lines 103 and 354.
normalize_call ==
    /\ norm.pc = "idle"
    /\ norm' = [norm EXCEPT !.pc = "once", !.once = normalize_model_name(norm.input)]
    /\ UNCHANGED <<sessions, conv>>

\* A later request names the model the first call returned.
normalize_again ==
    /\ norm.pc = "once"
    /\ norm' = [norm EXCEPT !.pc = "twice", !.twice = normalize_model_name(Some(norm.once))]
    /\ UNCHANGED <<sessions, conv>>

\* An item of input_items and a part of its content, by the fields
\* canonicalize_first_user_message reads; a field that is missing or of
\* another JSON type is None.  Strings are sequences of characters.
Part(type, text, image_url) == [type |-> type, text |-> text, image_url |-> image_url]
InputItem(type, role, content) == [type |-> type, role |-> role, content |-> content]
InputText(text) == Part(Some("input_text"), Some(text), None)
UserMessage(content) == InputItem(Some("message"), Some("user"), Some(content))

InputItemChoices ==
    { UserMessage(<<InputText(<<"a">>)>>),
      UserMessage(<<InputText(<<"b">>), Part(Some("input_image"), None, Some(<<"u">>))>>),
      UserMessage(<<InputText(<<"a">>), InputText(<<"b">>)>>),
      UserMessage(<<InputText(<<"a", "|", "b">>)>>),
      UserMessage(<<Part(Some("function_call_output"), None, None)>>),
      InputItem(Some("message"), Some("assistant"),
                Some(<<Part(Some("output_text"), Some(<<"a">>), None)>>)),
      InputItem(None, None, None) }
InstructionChoices == {None, Some(<<"s">>), Some(<<" ", "s">>)}

\* Lines 273-289: the strings pushed to out_parts for the parts of a content.
RECURSIVE out_parts(_)
out_parts(content) ==
    IF content = <<>> THEN <<>>
    ELSE LET part == Head(content)
         IN  (IF part.type = Some("input_text") /\ IsSome(part.text)
              THEN <<Unwrap(part.text)>>
              ELSE IF part.type = Some("input_image") /\ IsSome(part.image_url)
              THEN << <<"<img:">> \o Unwrap(part.image_url) \o <<">">> >>
              ELSE <<>>) \o out_parts(Tail(content))

\* [String]::join
RECURSIVE join(_, _)
join(strs, sep) ==
    IF strs = <<>> THEN <<>>
    ELSE IF Len(strs) = 1 THEN Head(strs)
    ELSE Head(strs) \o <<sep>> \o join(Tail(strs), sep)

\* fn canonicalize_first_user_message(input_items) -> Option<String>; each
\* `?` returns None from the function.
RECURSIVE canonicalize_first_user_message(_)
canonicalize_first_user_message(input_items) ==
    IF input_items = <<>> THEN None
    ELSE LET item == Head(input_items)
             rest == canonicalize_first_user_message(Tail(input_items))
         IN  IF ~IsSome(item.type) THEN None
             ELSE IF Unwrap(item.type) # "message" THEN rest
             ELSE IF ~IsSome(item.role) THEN None
             ELSE IF Unwrap(item.role) # "user" THEN rest
             ELSE IF ~IsSome(item.content) THEN None
             ELSE IF out_parts(Unwrap(item.content)) # <<>>
             THEN Some(join(out_parts(Unwrap(item.content)), "|"))
             ELSE rest

\* The id: hex(SHA-256(prefix)), kept symbolic, or a fresh random UUID
\* (nonce; collisions of random UUIDs are not modelled).
SessionId(kind, prefix, nonce) == [kind |-> kind, prefix |-> prefix, nonce |-> nonce]

\* pub fn ensure_session_id(instructions, input_items) -> String
ensure_session_id(instructions, input_items, nonce) ==
    LET ins == IF IsSome(instructions) /\ trim(Unwrap(instructions)) # <<>>
               THEN trim(Unwrap(instructions)) ELSE <<>>
        first_user == canonicalize_first_user_message(input_items)
        prefix == ins \o (IF IsSome(first_user) THEN Unwrap(first_user) ELSE <<>>)
    IN  IF prefix = <<>> THEN SessionId("uuid", <<>>, nonce)
        ELSE SessionId("sha256", prefix, 0)

SessionIdle ==
    [pc |-> "idle", instructions |-> None, input_items |-> <<>>,
     sid |-> SessionId("", <<>>, 0)]

\* start_upstream, lines 205-206: a dispatch without a caller's session id.
ensure_session_id_call(k, instructions, input_items) ==
    /\ sessions[k].pc = "idle"
    /\ k > 1 => sessions[k - 1].pc # "idle"
    /\ sessions' = [sessions EXCEPT ![k] =
          [pc |-> "done", instructions |-> instructions, input_items |-> input_items,
           sid |-> ensure_session_id(instructions, input_items, k)]]
    /\ UNCHANGED <<norm, conv>>

\* ------------------------------------------------------------------ messages
\* A message of the request (crate::types::claude::Message): its role and
\* its content, MessageContent::Text { content } or ::Blocks { content }.
\* Roles: System, User, Assistant.  A block is Text { text },
\* ImageUrl { image_url }, ToolResult { tool_use_id, content } or another kind.
Block(kind, text, url, tool_use_id, content) ==
    [kind |-> kind, text |-> text, url |-> url, tool_use_id |-> tool_use_id,
     content |-> content]
TextBlock(text) == Block("Text", text, <<>>, "", "")
ImageUrlBlock(url) == Block("ImageUrl", "", url, "", "")
ToolResultBlock(tool_use_id, content) == Block("ToolResult", "", <<>>, tool_use_id, content)
OtherBlock == Block("Other", "", <<>>, "", "")
TextMessage(role, content) == [role |-> role, kind |-> "Text", text |-> content, blocks |-> <<>>]
BlocksMessage(role, content) == [role |-> role, kind |-> "Blocks", text |-> "", blocks |-> content]

\* A URL is a sequence of pieces; a data URL is header, ",", data.
DataUrl(data) == <<"data:image/png;base64", ",", data>>
PlainUrl == <<"https://x/i.png">>

\* Lines 302-309: data.trim() without '\n' and '\r', '-' and '_' replaced
\* by '+' and '/', then padded with '=' to a multiple of four.
dpad(data) ==
    IF data = "QUJD" THEN "QUJD"
    ELSE IF data = " QU-_\n" THEN "QU+/"
    ELSE IF data = "QUI" THEN "QUI="
    ELSE IF data = "!" THEN "!==="
    ELSE data
\* Lines 310-313: neither the URL-safe nor the standard alphabet decodes it.
decode_is_err(padded) == padded \notin {"QUJD", "QU+/", "QUI="}

\* fn normalize_data_url(url: &str) -> String
normalize_data_url(url) ==
    IF url = <<>> \/ Head(url) # "data:image/png;base64" THEN url
    ELSE IF Len(url) < 3 \/ url[2] # "," THEN url
    ELSE IF decode_is_err(dpad(url[3])) THEN url
    ELSE <<url[1], ",", dpad(url[3])>>

MessageChoices ==
    { TextMessage("System", "X"),
      BlocksMessage("System", <<TextBlock("X"), TextBlock("")>>),
      TextMessage("User", "hi"),
      TextMessage("User", ""),
      BlocksMessage("User", <<TextBlock(""), TextBlock("hi")>>),
      BlocksMessage("User", <<TextBlock(""), ImageUrlBlock(<<>>), OtherBlock>>),
      BlocksMessage("User", <<ToolResultBlock("call_1", "out")>>),
      BlocksMessage("User", <<TextBlock("hi"), ImageUrlBlock(DataUrl("QUI")),
                              ToolResultBlock("call_2", "")>>),
      BlocksMessage("User", <<ImageUrlBlock(PlainUrl), ImageUrlBlock(DataUrl("!"))>>),
      TextMessage("Assistant", "ok"),
      TextMessage("Assistant", ""),
      BlocksMessage("Assistant", <<TextBlock(""), TextBlock("")>>),
      BlocksMessage("Assistant", <<TextBlock("ok"), ToolResultBlock("call_3", "out"),
                                   TextBlock("then")>>) }

\* A part of an input item's content and an input item, as the JSON built.
ContentPart(type, text, image_url, call_id, output) ==
    [type |-> type, text |-> text, image_url |-> image_url, call_id |-> call_id,
     output |-> output]
TextPart(type, text) == ContentPart(type, text, <<>>, "", "")
MessageItem(role, content) == [type |-> "message", role |-> role, content |-> content]

\* Lines 70-80: the parts of an assistant message's blocks.
RECURSIVE assistant_items(_)
assistant_items(blocks) ==
    IF blocks = <<>> THEN <<>>
    ELSE LET blk == Head(blocks)
         IN  (IF blk.kind = "Text" /\ blk.text # ""
              THEN <<TextPart("output_text", blk.text)>> ELSE <<>>)
             \o assistant_items(Tail(blocks))

\* Lines 107-140: the parts of a user message's blocks.
RECURSIVE user_items(_)
user_items(blocks) ==
    IF blocks = <<>> THEN <<>>
    ELSE LET blk == Head(blocks)
         IN  (IF blk.kind = "Text"
              THEN IF blk.text # "" THEN <<TextPart("input_text", blk.text)>> ELSE <<>>
              ELSE IF blk.kind = "ImageUrl"
              THEN IF normalize_data_url(blk.url) # <<>>
                   THEN <<ContentPart("input_image", "", normalize_data_url(blk.url), "", "")>>
                   ELSE <<>>
              ELSE IF blk.kind = "ToolResult"
              THEN <<ContentPart("function_call_output", "", <<>>, blk.tool_use_id,
                                 blk.content)>>
              ELSE <<>>)
             \o user_items(Tail(blocks))

\* A conversion that pushes the item of every non-system message.
items_of_message_keeping_empty(msg) ==
    IF msg.role = "System" THEN <<>>
    ELSE IF msg.role = "Assistant"
    THEN IF msg.kind = "Blocks"
         THEN <<MessageItem("assistant", assistant_items(msg.blocks))>>
         ELSE <<MessageItem("assistant", <<TextPart("output_text", msg.text)>>)>>
    ELSE IF msg.kind = "Blocks"
         THEN <<MessageItem("user", user_items(msg.blocks))>>
         ELSE <<MessageItem("user", <<TextPart("input_text", msg.text)>>)>>

\* Lines 62-169: the items one message adds to out.
items_of_message(msg) ==
    IF msg.role = "System" THEN <<>>
    ELSE IF msg.role = "Assistant"
    THEN IF msg.kind = "Blocks"
         THEN IF assistant_items(msg.blocks) # <<>>
              THEN <<MessageItem("assistant", assistant_items(msg.blocks))>> ELSE <<>>
         ELSE IF msg.text # ""
              THEN <<MessageItem("assistant", <<TextPart("output_text", msg.text)>>)>>
              ELSE <<>>
    ELSE IF msg.kind = "Blocks"
         THEN IF user_items(msg.blocks) # <<>>
              THEN <<MessageItem("user", user_items(msg.blocks))>> ELSE <<>>
         ELSE IF msg.text # ""
              THEN <<MessageItem("user", <<TextPart("input_text", msg.text)>>)>>
              ELSE <<>>

\* An out that grows at its front.
push_front(out_items, new_items) == new_items \o out_items

\* Vec::push of the item, if the message has one.
push(out_items, new_items) == out_items \o new_items

\* CodexState::convert_messages_to_responses_input: the loop over messages.
RECURSIVE convert_loop(_, _)
convert_loop(out_items, messages) ==
    IF messages = <<>> THEN out_items
    ELSE convert_loop(push(out_items, items_of_message(Head(messages))), Tail(messages))
convert_messages_to_responses_input(messages) == convert_loop(<<>>, messages)

\* codex.rs lines 31-59: the non-empty texts of the System messages, joined
\* with "\n"; the result is a sequence of pieces.
RECURSIVE block_texts(_)
block_texts(blocks) ==
    IF blocks = <<>> THEN <<>>
    ELSE (IF Head(blocks).kind = "Text" /\ Head(blocks).text # ""
          THEN << <<Head(blocks).text>> >> ELSE <<>>) \o block_texts(Tail(blocks))
RECURSIVE system_parts(_)
system_parts(messages) ==
    IF messages = <<>> THEN <<>>
    ELSE LET m == Head(messages)
         IN  (IF m.role # "System" THEN <<>>
              ELSE IF m.kind = "Text" THEN (IF m.text # "" THEN << <<m.text>> >> ELSE <<>>)
              ELSE block_texts(m.blocks))
             \o system_parts(Tail(messages))
system_instructions(messages) ==
    IF system_parts(messages) = <<>> THEN None
    ELSE Some(join(system_parts(messages), "\n"))

ConvIdle(messages) ==
    [pc |-> "idle", messages |-> messages, instructions |-> None, input_items |-> <<>>]

\* codex.rs lines 127-131: the instructions and the input of the request.
convert_call ==
    /\ conv.pc = "idle"
    /\ conv' = [conv EXCEPT !.pc = "done",
                            !.instructions = system_instructions(conv.messages),
                            !.input_items =
                                convert_messages_to_responses_input(conv.messages)]
    /\ UNCHANGED <<norm, sessions>>

InitCallsIdle ==
    /\ norm = NormIdle(None)
    /\ sessions = [k \in {1, 2} |-> SessionIdle]
    /\ conv = ConvIdle(<<>>)

InitConvert ==
    /\ norm = NormIdle(None)
    /\ sessions = [k \in {1, 2} |-> SessionIdle]
    /\ conv \in {ConvIdle(messages) : messages \in SeqsUpTo(MessageChoices, MaxMessages)}

InitNormalize ==
    /\ norm \in {NormIdle(input) : input \in ModelNameInputs}
    /\ sessions = [k \in {1, 2} |-> SessionIdle]
    /\ conv = ConvIdle(<<>>)

\* ------------------------------------------------------------------ handler
\* One request of codex_chat_completions or codex_completions from the
\* moment start_upstream returned the upstream's response.
VARIABLES
    http,            \* the upstream's answer: status class and, if not 2xx, body
    stream,          \* "stream" of the request
    upstream_error,  \* the upstream event stream ended with a transport error
    agg,             \* the handler's position and the aggregator's locals
    reply            \* the HTTP response handed to the client, None before

handlerVars == <<http, stream, upstream_error, agg, reply>>

\* ok: status().is_success(); parses: the body is JSON; error_message:
\* error.message of the body when it is a string.
Http(ok, parses, error_message) ==
    [ok |-> ok, parses |-> parses, error_message |-> error_message]
UpstreamAnswers ==
    { Http(TRUE, FALSE, None),
      Http(FALSE, TRUE, Some("quota exceeded")),
      Http(FALSE, TRUE, None),
      Http(FALSE, FALSE, None) }

\* A message that ignores the body.
upstream_error_message_generic(h) == "Upstream error"

\* Lines 144-149, 373-378: the message of a non-2xx answer; a body that is
\* not JSON becomes {"raw": body}, which has no error.message.
upstream_error_message(h) ==
    IF h.parses THEN unwrap_or(h.error_message, "Upstream error") ELSE "Upstream error"

\* The HTTP response: its status, whether it is an SSE stream, and the
\* fields of its JSON body (text as the sequence of the pieces appended).
Reply(status, sse, error, id, object, text, tool_calls, finish_reason, usage) ==
    [status |-> status, sse |-> sse, error |-> error, id |-> id, object |-> object,
     created |-> IF object = "" THEN "" ELSE Created,
     model |-> IF object = "" THEN "" ELSE ModelOut,
     text |-> text, tool_calls |-> tool_calls, finish_reason |-> finish_reason,
     usage |-> usage]
BadGateway(msg) == Reply("BAD_GATEWAY", FALSE, Some(msg), "", "", <<>>, <<>>, "", None)
SseReply == Reply("OK", TRUE, None, "", "", <<>>, <<>>, "", None)

\* Lines 243-246, 447-449: the aggregator's locals; taken counts the events
\* try_next has yielded, failed holds the message of a response.failed.
Aggregator(pc, tgt) ==
    [pc |-> pc, full_text |-> <<>>,
     response_id |-> IF tgt = "chat" THEN "chatcmpl" ELSE "cmpl",
     usage_out |-> None, tool_calls |-> <<>>, taken |-> 0, failed |-> None,
     saw_error |-> FALSE]

\* String::push_str
push_str(text, d) == IF d = "" THEN text ELSE Append(text, d)

AggToolCall(id, name, arguments) ==
    [id |-> id, type |-> "function", name |-> name, arguments |-> arguments]

\* An aggregator that gives up at an event it cannot parse.
agg_unparseable_aborts(a) == [a EXCEPT !.pc = "failed", !.failed = Some("unparseable")]

\* Lines 248-251, 451-454: Err(_) => continue.
agg_unparseable(a) == a

\* An aggregator that notes a response.failed event and goes on.
agg_failed_goes_on(a, v) == [a EXCEPT !.failed = None]

\* Lines 283-295, 470-482: response.failed ends the handler.
agg_failed(a, v) ==
    [a EXCEPT !.pc = "failed",
              !.failed = Some(unwrap_or(v.error_message, "response.failed"))]

\* An aggregator that reads on after response.completed.
agg_completed_goes_on(a, v) == [a EXCEPT !.usage_out = v.usage]

\* Lines 280-282, 467-469: usage is captured and the loop is left.
agg_completed(a, v) == [a EXCEPT !.usage_out = v.usage, !.pc = "break"]

\* Lines 247-296 and 450-483: the body of the aggregator's loop for one event.
agg_event(a, ev, tgt) ==
    LET v == ev.data
        kind == v.type
        a1 == [a EXCEPT !.taken = @ + 1]
        a2 == IF IsSome(v.response_id)
              THEN [a1 EXCEPT !.response_id = Unwrap(v.response_id)] ELSE a1
    IN  IF ~v.json THEN agg_unparseable(a1)
        ELSE IF kind = "response.output_text.delta"
        THEN IF IsSome(v.delta)
             THEN [a2 EXCEPT !.full_text = push_str(@, Unwrap(v.delta))] ELSE a2
        ELSE IF kind = "response.output_item.done" /\ tgt = "chat"
        THEN IF is_function_call(v.item)
             THEN [a2 EXCEPT !.tool_calls = Append(@,
                      AggToolCall(
                          unwrap_or(IF IsSome(v.item.call_id) THEN v.item.call_id
                                    ELSE v.item.id, ""),
                          unwrap_or(v.item.name, ""),
                          unwrap_or(v.item.arguments, "")))]
             ELSE a2
        ELSE IF kind = "response.completed" THEN agg_completed(a2, v)
        ELSE IF kind = "response.failed" THEN agg_failed(a2, v)
        ELSE a2

\* Lines 297-313 and 485-497: the completion object built after the loop.
completion(a, tgt) ==
    Reply("OK", FALSE, None, a.response_id,
          IF tgt = "chat" THEN "chat.completion" ELSE "text_completion",
          a.full_text, a.tool_calls, "stop", a.usage_out)

InitHandlerIdle ==
    /\ http = Http(TRUE, FALSE, None)
    /\ stream = TRUE
    /\ upstream_error = FALSE
    /\ agg = Aggregator("idle", "chat")
    /\ reply = None

\* Lines 143-158, 372-388: the status check and the choice of the path.
codex_upstream_status ==
    /\ agg.pc = "status"
    /\ IF ~http.ok
       THEN /\ reply' = Some(BadGateway(upstream_error_message(http)))
            /\ agg' = [agg EXCEPT !.pc = "done"]
            /\ out_open' = out_open
       ELSE IF stream
       THEN /\ reply' = Some(SseReply)
            /\ agg' = [agg EXCEPT !.pc = "streaming"]
            /\ out_open' = TRUE
       ELSE /\ reply' = reply
            /\ agg' = [agg EXCEPT !.pc = "loop"]
            /\ out_open' = out_open
    /\ UNCHANGED <<target, include_usage, upstream, upstream_open, consumed, out>>
    /\ UNCHANGED <<http, stream, upstream_error>>

\* The upstream event stream ends with a transport error.
upstream_fails ==
    /\ upstream_open
    /\ upstream_open' = FALSE
    /\ upstream_error' = TRUE
    /\ UNCHANGED <<target, include_usage, upstream, consumed, out, out_open>>
    /\ UNCHANGED <<http, stream, agg, reply>>

\* Lines 247-296: stream.try_next().await yields Ok(Some(evt)).
aggregator_event ==
    /\ agg.pc = "loop"
    /\ agg.taken < Len(upstream)
    /\ LET a == agg_event(agg, upstream[agg.taken + 1], target)
       IN  IF a.pc = "failed"
           THEN /\ agg' = [a EXCEPT !.pc = "done"]
                /\ reply' = Some(BadGateway(Unwrap(a.failed)))
           ELSE IF a.pc = "break"
           THEN /\ agg' = [a EXCEPT !.pc = "done"]
                /\ reply' = Some(completion(a, target))
           ELSE /\ agg' = a
                /\ reply' = reply
    /\ UNCHANGED <<streamVars, http, stream, upstream_error>>

\* Line 247: try_next().await yields Ok(None), or Err(_) which
\* unwrap_or(None) turns into None: the loop ends.
aggregator_end ==
    /\ agg.pc = "loop"
    /\ agg.taken = Len(upstream)
    /\ ~upstream_open
    /\ agg' = [agg EXCEPT !.pc = "done", !.saw_error = upstream_error]
    /\ reply' = Some(completion(agg, target))
    /\ UNCHANGED <<streamVars, http, stream, upstream_error>>

InitAggregate ==
    /\ target \in {"chat", "legacy"}
    /\ include_usage = FALSE
    /\ upstream = <<>>
    /\ upstream_open = TRUE
    /\ consumed = 0
    /\ out = <<>>
    /\ out_open = FALSE
    /\ http = Http(TRUE, FALSE, None)
    /\ stream = FALSE
    /\ upstream_error = FALSE
    /\ agg = Aggregator("status", target)
    /\ reply = None

NextAggregate ==
    \/ codex_upstream_status /\ UNCHANGED <<oauthVars, callVars>>
    \/ \E data \in UpstreamData : upstream_sends(data) /\ UNCHANGED <<oauthVars, handlerVars, callVars>>
    \/ upstream_ends /\ UNCHANGED <<oauthVars, handlerVars, callVars>>
    \/ upstream_fails /\ UNCHANGED <<oauthVars, callVars>>
    \/ aggregator_event /\ UNCHANGED <<oauthVars, callVars>>
    \/ aggregator_end /\ UNCHANGED <<oauthVars, callVars>>

InitStatus ==
    /\ target \in {"chat", "legacy"}
    /\ include_usage \in BOOLEAN
    /\ upstream = <<>>
    /\ upstream_open = TRUE
    /\ consumed = 0
    /\ out = <<>>
    /\ out_open = FALSE
    /\ http \in UpstreamAnswers
    /\ stream \in BOOLEAN
    /\ upstream_error = FALSE
    /\ agg = Aggregator("status", target)
    /\ reply = None

NextStatus ==
    \/ codex_upstream_status /\ UNCHANGED <<oauthVars, callVars>>
    \/ /\ Len(upstream) < MaxStatusEvents
       /\ \E data \in UpstreamData : upstream_sends(data)
       /\ UNCHANGED <<oauthVars, handlerVars, callVars>>
    \/ upstream_ends /\ UNCHANGED <<oauthVars, handlerVars, callVars>>
    \/ upstream_fails /\ UNCHANGED <<oauthVars, callVars>>
    \/ aggregator_event /\ UNCHANGED <<oauthVars, callVars>>
    \/ aggregator_end /\ UNCHANGED <<oauthVars, callVars>>
    \/ stream_poll_event /\ UNCHANGED <<oauthVars, handlerVars, callVars>>
    \/ stream_poll_end /\ UNCHANGED <<oauthVars, handlerVars, callVars>>

NextStream ==
    \/ \E data \in UpstreamData : upstream_sends(data) /\ UNCHANGED <<oauthVars, handlerVars, callVars>>
    \/ upstream_ends /\ UNCHANGED <<oauthVars, handlerVars, callVars>>
    \/ stream_poll_event /\ UNCHANGED <<oauthVars, handlerVars, callVars>>
    \/ stream_poll_end /\ UNCHANGED <<oauthVars, handlerVars, callVars>>

\* ------------------------------------------------------------------ system
vars == <<oauthVars, streamVars, handlerVars, callVars>>

Init == InitOAuth /\ InitStreamIdle /\ InitHandlerIdle /\ InitCallsIdle

\* The number of requests received so far.
Started(f) == Cardinality({i \in DOMAIN f : f[i].pc # "idle"})
Requests == Len(issued) + Started(cb) + Started(lo) + Started(dp) + Len(status_out)

\* The steps of the handlers; a new request is accepted while fewer than
\* `limit` have been received.
NextOAuth(limit) ==
    \/ /\ Requests < limit
       /\ \E prefix \in RedirectPrefixes : api_codex_oauth_start(prefix)
       /\ UNCHANGED <<streamVars, handlerVars, callVars>>
    \/ /\ Requests < limit
       /\ \E c \in 1..MaxCallbacks : \E q \in CallbackQueries :
             api_codex_oauth_callback_check(c, q)
       /\ UNCHANGED <<streamVars, handlerVars, callVars>>
    \/ /\ \E c \in 1..MaxCallbacks : \E o \in ExchangeOutcomes(c) :
             api_codex_oauth_callback_exchange(c, o)
       /\ UNCHANGED <<streamVars, handlerVars, callVars>>
    \/ /\ \E c \in 1..MaxCallbacks : api_codex_oauth_callback_rcu(c)
       /\ UNCHANGED <<streamVars, handlerVars, callVars>>
    \/ /\ \E c \in 1..MaxCallbacks : api_codex_oauth_callback_load(c)
       /\ UNCHANGED <<streamVars, handlerVars, callVars>>
    \/ /\ \E c \in 1..MaxCallbacks : \E ok \in BOOLEAN :
             api_codex_oauth_callback_save(c, ok)
       /\ UNCHANGED <<streamVars, handlerVars, callVars>>
    \/ /\ \E c \in 1..MaxCallbacks : api_codex_oauth_callback_clear(c)
       /\ UNCHANGED <<streamVars, handlerVars, callVars>>
    \/ /\ Requests < limit
       /\ \E l \in 1..MaxLogouts : api_codex_logout_rcu(l)
       /\ UNCHANGED <<streamVars, handlerVars, callVars>>
    \/ /\ \E l \in 1..MaxLogouts : api_codex_logout_load(l)
       /\ UNCHANGED <<streamVars, handlerVars, callVars>>
    \/ /\ \E l \in 1..MaxLogouts : \E ok \in BOOLEAN : api_codex_logout_save(l, ok)
       /\ UNCHANGED <<streamVars, handlerVars, callVars>>
    \/ /\ Requests < limit
       /\ \E d \in 1..MaxDispatches : start_upstream_access_token(d)
       /\ UNCHANGED <<streamVars, handlerVars, callVars>>
    \/ /\ \E d \in 1..MaxDispatches : start_upstream_account_id(d)
       /\ UNCHANGED <<streamVars, handlerVars, callVars>>
    \/ /\ Requests < limit
       /\ api_codex_tokens
       /\ UNCHANGED <<streamVars, handlerVars, callVars>>

\* Every interleaving of at most MaxRequests requests.
Next == NextOAuth(MaxRequests)
Spec == Init /\ [][Next]_vars

\* Every interleaving of at most MaxRaceRequests requests.
NextRace == NextOAuth(MaxRaceRequests)
SpecRace == Init /\ [][NextRace]_vars

\* One streaming response, for every sequence of at most MaxEvents events.
InitStreaming ==
    InitOAuth /\ tokens = StoredTokens /\ InitStream /\ InitHandlerIdle /\ InitCallsIdle
SpecStream == InitStreaming /\ [][NextStream]_vars

\* One non-streaming request whose upstream answered 2xx.
InitAggregating == InitOAuth /\ tokens = StoredTokens /\ InitAggregate /\ InitCallsIdle
SpecAggregate == InitAggregating /\ [][NextAggregate]_vars

\* One request of either endpoint, streaming or not, for every upstream answer.
InitAnswered == InitOAuth /\ tokens = StoredTokens /\ InitStatus /\ InitCallsIdle
SpecStatus == InitAnswered /\ [][NextStatus]_vars

\* normalize_model_name on every model name of at most MaxNameLen pieces.
NextNormalize ==
    \/ normalize_call /\ UNCHANGED <<oauthVars, streamVars, handlerVars>>
    \/ normalize_again /\ UNCHANGED <<oauthVars, streamVars, handlerVars>>

NextSession ==
    /\ \E k \in {1, 2} : \E instructions \in InstructionChoices :
          \E input_items \in SeqsUpTo(InputItemChoices, MaxItems) :
             ensure_session_id_call(k, instructions, input_items)
    /\ UNCHANGED <<oauthVars, streamVars, handlerVars>>

\* Two calls of ensure_session_id, for every pair of arguments.
InitSessions ==
    InitOAuth /\ tokens = StoredTokens /\ InitStreamIdle /\ InitHandlerIdle /\ InitCallsIdle
SpecSession == InitSessions /\ [][NextSession]_vars

\* The conversion of every message sequence of at most MaxMessages messages.
NextConvert == convert_call /\ UNCHANGED <<oauthVars, streamVars, handlerVars>>
InitConverting ==
    InitOAuth /\ tokens = StoredTokens /\ InitStreamIdle /\ InitHandlerIdle /\ InitConvert
SpecConvert == InitConverting /\ [][NextConvert]_vars

InitNormalizing ==
    InitOAuth /\ tokens = StoredTokens /\ InitStreamIdle /\ InitHandlerIdle /\ InitNormalize
SpecNormalize == InitNormalizing /\ [][NextNormalize]_vars

\* ------------------------------------------------------------------ claims
\* What a callback request has done so far.
Wrote(c) == cb[c].pc \in {"load", "save", "clear"} \/ cb[c].result = "Login successful"
Exchanged(c) ==
    \/ cb[c].pc = "persist"
    \/ Wrote(c)
    \/ cb[c].result \in {"Token exchange failed", "Token endpoint error"}
Rejected(c) ==
    cb[c].result \in {"State mismatch", "No pending login or it expired"}
LatestStart == issued[Len(issued)].pending
CompleteQuery(q) == ~IsSome(q.error) /\ IsSome(q.code) /\ IsSome(q.state)
\* The step in which callback c reads its query and the PENDING slot.
Begins(c) == cb[c].pc = "idle" /\ cb'[c].pc # "idle"

\* C1: each pending flow is consumed at most once.  Of the callbacks that
\* carry the state of one flow, at most one performs the code exchange and
\* writes the credential record, and every other one is rejected.
C1_FlowConsumedAtMostOnce ==
    \A c1, c2 \in DOMAIN cb :
        (/\ c1 # c2
         /\ IsSome(cb[c1].q.state)
         /\ cb[c1].q.state = cb[c2].q.state
         /\ Wrote(c1)
         /\ cb[c2].pc # "idle")
        => (~Exchanged(c2) /\ (cb[c2].pc = "done" => Rejected(c2)))

\* C2: the access token and the account id that a dispatch sends come from
\* one version of the credential record: the account id sent is the account
\* id of the version the access token was read from.
C2_DispatchReadsOneVersion ==
    \A d \in DOMAIN dp :
        dp[d].result = "sent" => dp[d].account_id = dp[d].paired

\* C3: a dispatch sends a request only when the credential record has both
\* access_token and account_id present and non-empty: some version of the
\* record that was current during the call had both, and the values sent are
\* non-empty; otherwise the call ends in a BadRequest.
C3_DispatchOnlyWithBoth ==
    \A d \in DOMAIN dp :
        /\ dp[d].result = "sent" =>
              (dp[d].sawBoth /\ Present(dp[d].access_token) /\ Present(dp[d].account_id))
        /\ (dp[d].pc = "done" /\ ~dp[d].sawBoth) =>
              dp[d].result \in {NotAuthenticated, MissingAccountId}

\* C4: last start wins.  When a start completes the slot holds exactly its
\* state, verifier and redirect_uri; whenever the slot holds an entry it is
\* the most recent start's; and a callback that begins while the slot holds
\* it and carries the state of an earlier start ends at once in
\* "State mismatch", with no code exchange.
C4_SlotHoldsLatest == IsSome(PENDING) => PENDING = Some(LatestStart)
C4_StartReplaces == Len(issued') > Len(issued) => PENDING' = Some(issued'[Len(issued')].pending)
C4_EarlierStateRejected ==
    \A c \in DOMAIN cb :
        (/\ Begins(c)
         /\ IsSome(PENDING)
         /\ CompleteQuery(cb'[c].q)
         /\ \E k \in 1..(Len(issued) - 1) :
               issued[k].pending.state = Unwrap(cb'[c].q.state))
        => (cb'[c].pc = "done" /\ cb'[c].result = "State mismatch")
C4_LastStartWins ==
    /\ []C4_SlotHoldsLatest
    /\ [][C4_StartReplaces /\ C4_EarlierStateRejected]_vars

C4_Witness ==
    /\ Len(issued) >= 2
    /\ PENDING = Some(LatestStart)
    /\ \E c \in DOMAIN cb :
          /\ cb[c].q.state = Some(issued[1].pending.state)
          /\ cb[c].result = "State mismatch"

\* C5: a callback whose state differs from the state of the pending flow
\* ends in "State mismatch" without a token exchange, and the credential
\* record, in memory and on disk, is as it was.
C5_MismatchStep ==
    \A c \in DOMAIN cb :
        (/\ Begins(c)
         /\ IsSome(PENDING)
         /\ CompleteQuery(cb'[c].q)
         /\ Unwrap(PENDING).state # Unwrap(cb'[c].q.state))
        => (/\ cb'[c].pc = "done"
            /\ cb'[c].result = "State mismatch"
            /\ tokens' = tokens
            /\ saved' = saved
            /\ PENDING' = PENDING)
C5_MismatchRejected == [][C5_MismatchStep]_vars

C5_Witness ==
    /\ Len(issued) = 1
    /\ tokens = StoredTokens
    /\ \E c \in DOMAIN cb :
          /\ cb[c].q.state = Some(ForgedState)
          /\ CompleteQuery(cb[c].q)
          /\ cb[c].result = "State mismatch"

\* C6: the credential record changes only in the write step of a callback
\* whose code exchange succeeded, or in the reset step of a logout.
C6_WriteStep ==
    tokens' # tokens =>
        \/ \E c \in DOMAIN cb : cb[c].pc = "persist" /\ cb'[c].pc = "load"
        \/ \E l \in DOMAIN lo : lo[l].pc = "idle" /\ lo'[l].pc = "load"
C6_OnlyCallbackAndLogoutWrite == [][C6_WriteStep]_vars

C6_Witness ==
    /\ tokens = StoredTokens
    /\ Len(issued) = 1
    /\ \E c \in DOMAIN cb : cb[c].result = "Token endpoint error"
    /\ \E d \in DOMAIN dp : dp[d].result = "sent"

\* C7: a dispatch that begins after a logout has completed, and during which
\* no callback writes a record with access_token and account_id, ends in the
\* not-authenticated BadRequest and sends nothing.
C7_NoDispatchAfterLogout ==
    \A d \in DOMAIN dp :
        (dp[d].pc = "done" /\ dp[d].afterLogout /\ ~dp[d].fullSince)
        => dp[d].result \in {NotAuthenticated, MissingAccountId}

\* The events of upstream[1..i] that carry a response.id.
CarryId(i) == {j \in 1..i : IsSome(upstream[j].data.response_id)}
Latest(S) == CHOOSE j \in S : \A k \in S : k <= j
Placeholder == IF target = "chat" THEN "chatcmpl-stream" ELSE "cmpl-stream"
\* The response.id most recently seen up to and including the i-th event.
LastSeenResponseId(i) ==
    IF CarryId(i) = {} THEN Placeholder
    ELSE Unwrap(upstream[Latest(CarryId(i))].data.response_id)
IsCompleted(ev) == ev.data.json /\ ev.data.type = "response.completed"

\* C8: the translator has emitted exactly one outbound event for each upstream
\* event it has taken, the i-th outbound event is the translation of the i-th
\* upstream event and carries its SSE id and event name, and when the outbound
\* stream has ended every upstream event has its outbound event.
C8_OneOutboundPerUpstreamInOrder ==
    /\ Len(out) = consumed
    /\ consumed <= Len(upstream)
    /\ \A i \in 1..Len(out) :
          /\ out[i] = stream_event(upstream[i])
          /\ out[i].id = upstream[i].id
          /\ out[i].event = upstream[i].event
    /\ ~out_open => Len(out) = Len(upstream)

\* A stream of MaxEvents events, forwarded and translated ones among them, has
\* been delivered completely.
C8_Witness ==
    /\ ~out_open
    /\ Len(out) = MaxEvents
    /\ \E i, j \in 1..Len(out) : i < j /\ out[i].forwarded /\ ~out[j].forwarded
    /\ \E i, j \in 1..Len(out) : i < j /\ ~out[i].forwarded /\ out[j].forwarded

\* C9: every outbound chunk that has an id has the response.id most recently
\* seen in the upstream events up to its own (the placeholder while none has
\* been seen).
C9_ChunkIdIsLastSeenResponseId ==
    \A i \in 1..Len(out) :
        IsSome(out[i].chunk_id) => out[i].chunk_id = Some(LastSeenResponseId(i))

\* C10: no outbound event is produced for an upstream event that arrives after
\* a response.completed event, and the outbound stream ends once the upstream
\* has ended and its events are delivered.
C10_NothingAfterCompleted ==
    /\ \A i \in 1..Len(out) : \A j \in 1..(i - 1) : ~IsCompleted(upstream[j])
    /\ ~out_open => ~upstream_open /\ consumed = Len(upstream)

IsFailed(ev) == ev.data.json /\ ev.data.type = "response.failed"

\* C11: on the chat streaming path the outbound event of a response.failed
\* event is one error object whose message is response.error.message
\* ("response.failed" when there is none); the outbound stream stays open
\* after it: the next upstream event can still be taken, events that came
\* after it have their translations, and the stream ends only once the
\* upstream has ended and every event is delivered.
C11_FailedIsInBandError ==
    target = "chat" =>
        \A i \in 1..Len(out) :
            IsFailed(upstream[i]) =>
                /\ ~out[i].forwarded
                /\ out[i].error =
                      Some(unwrap_or(upstream[i].data.error_message, "response.failed"))
                /\ out[i].chunk_id = None /\ out[i].content = None
                /\ (out_open /\ consumed < Len(upstream)) => ENABLED stream_poll_event
                /\ \A j \in (i + 1)..Len(out) : out[j] = stream_event(upstream[j])
                /\ ~out_open => (~upstream_open /\ Len(out) = Len(upstream))

\* A chat stream delivered a response.failed event with and without a
\* message, and then a text chunk.
C11_Witness ==
    /\ target = "chat"
    /\ Len(out) = 3
    /\ out[1].error = Some("boom")
    /\ out[2].error = Some("response.failed")
    /\ out[3].content = Some("He")

\* What a translator did with an event.
ActionOf(o) ==
    IF o.forwarded THEN "pass through"
    ELSE IF IsSome(o.error) THEN "error object"
    ELSE IF IsSome(o.usage) THEN "usage chunk"
    ELSE IF IsSome(o.finish_reason) THEN "stop chunk"
    ELSE "content chunk"
SharedTypes ==
    {"response.output_text.delta", "response.output_text.done", "response.failed",
     "response.completed"}

\* C12: for every upstream event of type response.output_text.delta,
\* response.output_text.done, response.failed or response.completed, the
\* legacy translator takes the same action as the chat translator, and a
\* content chunk carries the same delta in both.
C12_LegacyActsAsChat ==
    \A i \in 1..Len(out) :
        (upstream[i].data.json /\ upstream[i].data.type \in SharedTypes) =>
            LET chat == chat_stream_event(upstream[i], include_usage)
                legacy == completions_stream_event(upstream[i], include_usage)
            IN  /\ ActionOf(chat) = ActionOf(legacy)
                /\ ActionOf(chat) = "content chunk" => chat.content = legacy.text
                /\ chat.usage = legacy.usage

\* The events whose data the chat translator is to hand on unmodified.
ChatForwards(ev) ==
    \/ ~ev.data.json
    \/ ev.data.type \notin
          {"response.output_text.delta", "response.output_item.done",
           "response.output_text.done", "response.failed", "response.completed"}
    \/ ev.data.type = "response.output_item.done" /\ ev.data.item.type # "function_call"
    \/ ev.data.type = "response.completed" /\ ~(include_usage /\ IsSome(ev.data.usage))

\* C13: on the chat target an outbound event carries the upstream event's own
\* data exactly when the event is unparseable, has a type outside the five
\* translated ones, is an output_item.done of an item that is no function
\* call, or is a response.completed without requested-and-present usage;
\* every other outbound event is a built chunk, and it is a usage chunk
\* exactly when the event is a response.completed with usage and usage
\* inclusion was requested.
C13_ChatForwardsExactly ==
    target = "chat" =>
        \A i \in 1..Len(out) :
            /\ out[i].forwarded <=> ChatForwards(upstream[i])
            /\ out[i].forwarded => out[i].raw = upstream[i].data
            /\ ~out[i].forwarded => out[i].raw = NoData
            /\ IsSome(out[i].usage) <=>
                  (/\ IsCompleted(upstream[i])
                   /\ include_usage
                   /\ IsSome(upstream[i].data.usage))

\* A chat stream with usage requested delivered a forwarded item that is no
\* function call, a tool call chunk, and a usage chunk.
C13_Witness ==
    /\ target = "chat"
    /\ include_usage
    /\ Len(out) = 3
    /\ out[1].forwarded /\ upstream[1].data.item.type = "message"
    /\ IsSome(out[2].tool_calls)
    /\ out[3].usage = Some(5)

\* C14: when the aggregator's loop ended because the upstream event stream
\* failed with a transport error, the response is a BadGateway failure.
C14_TransportErrorIsBadGateway ==
    (agg.pc = "done" /\ agg.saw_error) =>
        (IsSome(reply) /\ Unwrap(reply).status = "BAD_GATEWAY")

\* C15: once the aggregator has consumed a response.failed event it has
\* stopped: that event is the last one it took, and the response is the
\* BadGateway failure with the event's message ("response.failed" when it has
\* none), without text and without tool calls.
C15_FailedAbortsAggregation ==
    \A i \in 1..agg.taken :
        IsFailed(upstream[i]) =>
            /\ agg.pc = "done"
            /\ agg.taken = i
            /\ reply =
                  Some(BadGateway(unwrap_or(upstream[i].data.error_message, "response.failed")))
            /\ Unwrap(reply).text = <<>>
            /\ Unwrap(reply).tool_calls = <<>>

\* Text and a tool call were accumulated, then response.failed was taken and
\* answered, and an event that came after it was left alone.
C15_Witness ==
    /\ target = "chat"
    /\ Len(upstream) = 3
    /\ agg.taken = 2
    /\ agg.pc = "done"
    /\ Len(agg.tool_calls) = 1
    /\ IsFailed(upstream[2])
    /\ reply = Some(BadGateway("boom"))

\* The index of the first response.completed event of seq, Len(seq) + 1 when
\* there is none.
RECURSIVE FirstCompleted(_)
FirstCompleted(seq) ==
    IF seq = <<>> THEN 1
    ELSE IF IsCompleted(Head(seq)) THEN 1
    ELSE 1 + FirstCompleted(Tail(seq))

\* The delta strings of the response.output_text.delta events of seq, in order.
RECURSIVE DeltaTexts(_)
DeltaTexts(seq) ==
    IF seq = <<>> THEN <<>>
    ELSE LET d == Head(seq).data
         IN  (IF d.json /\ d.type = "response.output_text.delta" /\ IsSome(d.delta)
                    /\ Unwrap(d.delta) # ""
              THEN <<Unwrap(d.delta)>> ELSE <<>>) \o DeltaTexts(Tail(seq))

\* C16: when the aggregator is done and took no response.failed event, the
\* response is a success whose text is the concatenation, in arrival order,
\* of the deltas of the response.output_text.delta events before the first
\* response.completed, and no event after the first response.completed was
\* taken.
C16_TextIsDeltasBeforeCompleted ==
    (/\ agg.pc = "done"
     /\ ~stream
     /\ http.ok
     /\ \A i \in 1..agg.taken : ~IsFailed(upstream[i]))
    => LET first == FirstCompleted(upstream)
       IN  /\ IsSome(reply)
           /\ Unwrap(reply).status = "OK"
           /\ Unwrap(reply).text = DeltaTexts(SubSeq(upstream, 1, first - 1))
           /\ agg.taken = IF first <= Len(upstream) THEN first ELSE Len(upstream)

\* Two deltas were concatenated; in another run a delta that followed
\* response.completed was left out.
C16_Witness ==
    /\ agg.pc = "done"
    /\ Len(upstream) = 3
    /\ IsSome(reply)
    /\ Unwrap(reply).text = <<"He">>
    /\ Unwrap(reply).id = "resp_1"
    /\ Unwrap(reply).usage = Some(5)
    /\ IsCompleted(upstream[2])
    /\ upstream[3].data.delta = Some("llo")

\* The aggregator run as a function of the event sequence.
RECURSIVE Aggregate(_, _, _)
Aggregate(a, seq, tgt) ==
    IF seq = <<>> \/ a.pc # "loop" THEN a
    ELSE Aggregate(agg_event(a, Head(seq), tgt), Tail(seq), tgt)
AggregateReply(seq, tgt) ==
    LET a == Aggregate(Aggregator("loop", tgt), seq, tgt)
    IN  IF a.pc = "failed" THEN BadGateway(Unwrap(a.failed)) ELSE completion(a, tgt)
Parseable(seq) == SelectSeq(seq, LAMBDA ev : ev.data.json)
Locals(a) == <<a.full_text, a.response_id, a.usage_out, a.tool_calls, a.failed>>

\* C17: what the aggregator holds while it runs, and the response it gives
\* when it is done, are those of a run over the same events with the
\* unparseable ones removed.
C17_UnparseableEventsAreSkipped ==
    /\ agg.pc = "loop" =>
          LET clean == Aggregate(Aggregator("loop", target),
                                 Parseable(SubSeq(upstream, 1, agg.taken)), target)
          IN  clean.pc = "loop" /\ Locals(clean) = Locals(agg)
    /\ (agg.pc = "done" /\ ~stream /\ http.ok) =>
          reply = Some(AggregateReply(Parseable(upstream), target))

\* A run over unparseable events around a delta ended in the response of the
\* delta alone.
C17_Witness ==
    /\ agg.pc = "done"
    /\ agg.taken = 3
    /\ ~upstream[1].data.json
    /\ ~upstream[3].data.json
    /\ IsSome(reply)
    /\ Unwrap(reply).text = <<"llo">>
    /\ Unwrap(reply).id = "resp_2"

\* C18: once the handler has seen a non-2xx answer, the response is the
\* BadGateway failure whose message is the body's error.message when the body
\* parses and has one, and "Upstream error" otherwise; no event has been
\* taken by the aggregator or by the stream translator and no chunk exists.
C18_Non2xxIsBadGateway ==
    (~http.ok /\ agg.pc # "status") =>
        /\ agg.pc = "done"
        /\ reply = Some(BadGateway(IF http.parses /\ IsSome(http.error_message)
                                   THEN Unwrap(http.error_message)
                                   ELSE "Upstream error"))
        /\ agg.taken = 0
        /\ consumed = 0
        /\ out = <<>>
        /\ ~out_open

\* A streaming legacy request got the upstream's message, with events in the body.
C18_Witness ==
    /\ target = "legacy"
    /\ stream
    /\ ~http.ok
    /\ Len(upstream) = MaxStatusEvents
    /\ reply = Some(BadGateway("quota exceeded"))

\* C19: normalizing a normalized model name gives the same name.
C19_NormalizeIdempotent ==
    norm.pc = "twice" => norm.twice = norm.once

\* The instructions as they enter the prefix.
TrimmedInstructions(instructions) ==
    IF IsSome(instructions) THEN trim(Unwrap(instructions)) ELSE <<>>
\* The first item of input_items that is a message of role user, if any.
RECURSIVE FirstUserItem(_)
FirstUserItem(input_items) ==
    IF input_items = <<>> THEN None
    ELSE IF Head(input_items).type = Some("message") /\ Head(input_items).role = Some("user")
    THEN Some(Head(input_items))
    ELSE FirstUserItem(Tail(input_items))
\* The canonical rendering of the first user message: its text and image
\* parts joined by "|".
FirstUserRendering(input_items) ==
    LET first == FirstUserItem(input_items)
    IN  IF IsSome(first) /\ IsSome(Unwrap(first).content)
        THEN Some(join(out_parts(Unwrap(Unwrap(first).content)), "|"))
        ELSE None

\* C20: two calls whose prefixes are non-empty and that agree on the trimmed
\* instructions and on the canonical rendering of the first user-role
\* message item get the same session id, whatever the other items are.
C20_SessionIdDependsOnFirstUserMessage ==
    (/\ sessions[1].pc = "done"
     /\ sessions[2].pc = "done"
     /\ sessions[1].sid.kind = "sha256"
     /\ sessions[2].sid.kind = "sha256"
     /\ TrimmedInstructions(sessions[1].instructions)
           = TrimmedInstructions(sessions[2].instructions)
     /\ FirstUserRendering(sessions[1].input_items)
           = FirstUserRendering(sessions[2].input_items))
    => sessions[1].sid = sessions[2].sid

\* The texts of the input_text parts of a content, in order.
RECURSIVE TextParts(_)
TextParts(content) ==
    IF content = <<>> THEN <<>>
    ELSE (IF Head(content).type = Some("input_text") /\ IsSome(Head(content).text)
          THEN <<Unwrap(Head(content).text)>> ELSE <<>>) \o TextParts(Tail(content))
\* input_items begins with a user message that has a text part.
BeginsWithUserText(input_items) ==
    /\ input_items # <<>>
    /\ Head(input_items).type = Some("message")
    /\ Head(input_items).role = Some("user")
    /\ IsSome(Head(input_items).content)
    /\ TextParts(Unwrap(Head(input_items).content)) # <<>>

\* C21: two calls with the same instructions whose first user messages differ
\* in their sequence of text parts get different session ids.
C21_TextChangeChangesSessionId ==
    (/\ sessions[1].pc = "done"
     /\ sessions[2].pc = "done"
     /\ sessions[1].instructions = sessions[2].instructions
     /\ BeginsWithUserText(sessions[1].input_items)
     /\ BeginsWithUserText(sessions[2].input_items)
     /\ TextParts(Unwrap(Head(sessions[1].input_items).content))
           # TextParts(Unwrap(Head(sessions[2].input_items).content)))
    => sessions[1].sid # sessions[2].sid

\* The ToolResult blocks of the non-system messages, in order.
RECURSIVE ToolResults(_)
ToolResults(messages) ==
    IF messages = <<>> THEN <<>>
    ELSE (IF Head(messages).role = "User" /\ Head(messages).kind = "Blocks"
          THEN SelectSeq(Head(messages).blocks, LAMBDA b : b.kind = "ToolResult")
          ELSE <<>>) \o ToolResults(Tail(messages))
\* Some element of a message item's content list is a function_call_output.
NestedFunctionCallOutput(input_items) ==
    \E i \in DOMAIN input_items : \E j \in DOMAIN input_items[i].content :
        input_items[i].content[j].type = "function_call_output"

\* C22: every ToolResult block of a user message is an input item of its own,
\* {type: "function_call_output", call_id, output}, and no element of a
\* message item's content list is one.
C22_ToolResultIsTopLevelItem ==
    conv.pc = "done" =>
        /\ \A k \in DOMAIN ToolResults(conv.messages) :
               \E i \in DOMAIN conv.input_items :
                   conv.input_items[i].type = "function_call_output"
        /\ ~NestedFunctionCallOutput(conv.input_items)

\* The items of the messages one by one, in the order of the messages.
RECURSIVE Images(_)
Images(messages) ==
    IF messages = <<>> THEN <<>>
    ELSE items_of_message(Head(messages)) \o Images(Tail(messages))

\* C23: the input is an order-preserving image of the non-system messages: a
\* System message gives no item, every other message at most one message item,
\* and the items stand in the order of their messages.
C23_InputIsOrderPreservingImage ==
    conv.pc = "done" =>
        /\ conv.input_items = Images(conv.messages)
        /\ \A i \in DOMAIN conv.messages :
               /\ Len(items_of_message(conv.messages[i])) <= 1
               /\ conv.messages[i].role = "System"
                      => items_of_message(conv.messages[i]) = <<>>
        /\ \A i \in DOMAIN conv.input_items :
               /\ conv.input_items[i].type = "message"
               /\ conv.input_items[i].role \in {"user", "assistant"}
        /\ Len(conv.input_items)
              <= Cardinality({i \in DOMAIN conv.messages : conv.messages[i].role # "System"})
C23_Witness ==
    /\ conv.pc = "done"
    /\ Len(conv.messages) = 3
    /\ conv.messages[1].role = "User"
    /\ conv.messages[2].role = "System"
    /\ conv.messages[3].role = "Assistant"
    /\ Len(conv.input_items) = 2
    /\ conv.input_items[1].role = "user"
    /\ conv.input_items[2].role = "assistant"

\* Every block of the message is an empty text, or its plain text is empty.
AllTextEmpty(msg) ==
    IF msg.kind = "Text" THEN msg.text = ""
    ELSE \A j \in DOMAIN msg.blocks :
             msg.blocks[j].kind = "Text" /\ msg.blocks[j].text = ""

\* C24: no message item has an empty content list, no text part has an empty
\* text, and messages whose texts are all empty give no item.
C24_NoEmptyContentNoEmptyText ==
    conv.pc = "done" =>
        /\ \A i \in DOMAIN conv.input_items :
               /\ conv.input_items[i].content # <<>>
               /\ \A j \in DOMAIN conv.input_items[i].content :
                      conv.input_items[i].content[j].type \in {"input_text", "output_text"}
                          => conv.input_items[i].content[j].text # ""
        /\ Len(conv.input_items)
              <= Cardinality({i \in DOMAIN conv.messages :
                                 /\ conv.messages[i].role # "System"
                                 /\ ~AllTextEmpty(conv.messages[i])})
C24_Witness ==
    /\ conv.pc = "done"
    /\ \E i, j, k \in DOMAIN conv.messages :
           /\ conv.messages[i].role = "User" /\ conv.messages[i].kind = "Text"
           /\ AllTextEmpty(conv.messages[i])
           /\ conv.messages[j].role = "Assistant" /\ conv.messages[j].kind = "Blocks"
           /\ AllTextEmpty(conv.messages[j])
           /\ conv.messages[k].kind = "Blocks" /\ ~AllTextEmpty(conv.messages[k])
           /\ \E b \in DOMAIN conv.messages[k].blocks :
                  conv.messages[k].blocks[b] = TextBlock("")
    /\ Len(conv.input_items) = 1

\* The step in which callback c ends with the page `result`.
EndsWith(c, results) ==
    cb[c].pc # "done" /\ cb'[c].pc = "done" /\ cb'[c].result \in results

\* C25: when a callback is rejected for a state mismatch or fails at the
\* token endpoint, the pending slot is empty afterwards.
C25_FailureStep ==
    \A c \in DOMAIN cb :
        EndsWith(c, {"State mismatch", "Token exchange failed", "Token endpoint error"})
            => PENDING' = None
C25_FailedCallbackClearsSlot == [][C25_FailureStep]_vars

\* C26: a transport failure of the code exchange leaves the pending slot as
\* it is; a callback that comes after it with the same state, while the slot
\* has not been replaced by a start nor cleared by a completed login, passes
\* the state check, and ends in "Login successful" unless its own exchange
\* fails.
C26_TransportFailureStep ==
    \A c \in DOMAIN cb : EndsWith(c, {"Token exchange failed"}) => PENDING' = PENDING
C26_RetryAccepted ==
    \A d \in DOMAIN cb :
        (/\ cb[d].retry
         /\ Len(issued) > 0
         /\ cb[d].q.state = Some(LatestStart.state)
         /\ \A e \in DOMAIN cb \ {d} : cb[e].result # "Login successful")
        => /\ ~Rejected(d)
           /\ cb[d].pc = "done" =>
                  cb[d].result \in {"Login successful", "Token exchange failed",
                                    "Token endpoint error"}
C26_RetryAfterTransportFailure ==
    /\ []C26_RetryAccepted
    /\ [][C26_TransportFailureStep]_vars
C26_Witness ==
    /\ Len(issued) = 1
    /\ \E c, d \in DOMAIN cb :
          /\ c # d
          /\ cb[c].result = "Token exchange failed"
          /\ cb[d].retry
          /\ cb[d].q = cb[c].q
          /\ cb[d].result = "Login successful"

\* C27: the pending slot is emptied only by the last step of a callback that
\* ends in "Login successful", which comes after its write of the credential
\* record; no other step of a callback changes the slot.
C27_ClearStep ==
    /\ (IsSome(PENDING) /\ PENDING' = None) =>
           \E c \in DOMAIN cb :
               /\ Wrote(c)
               /\ cb[c].pc = "clear"
               /\ cb'[c].pc = "done"
               /\ cb'[c].result = "Login successful"
    /\ \A c \in DOMAIN cb :
           (cb'[c] # cb[c] /\ cb[c].pc # "clear") => PENDING' = PENDING
C27_ClearOnlyAfterWrite == [][C27_ClearStep]_vars
C27_Witness ==
    /\ PENDING = None
    /\ Len(issued) = 1
    /\ \E c, d \in DOMAIN cb :
          /\ cb[c].result = "Token endpoint error"
          /\ cb[d].result = "Login successful"
          /\ tokens.last_refresh = Some(now)
          /\ now > 0

\* C28: the last step of a callback that was accepted for one flow leaves the
\* entry of a flow started since then in the slot, so that a callback with the
\* state of that entry is accepted afterwards.
C28_StaleClearStep ==
    \A c \in DOMAIN cb :
        (/\ cb[c].pc = "clear"
         /\ cb'[c].pc = "done"
         /\ IsSome(PENDING)
         /\ Unwrap(PENDING).state # Unwrap(cb[c].q.state))
        => /\ PENDING' = PENDING
           /\ CallbackCheck([error |-> None, code |-> Some("code"),
                              state |-> Some(Unwrap(PENDING).state)], PENDING')
                  = "exchange"
C28_StaleCallbackKeepsNewFlow == [][C28_StaleClearStep]_vars

\* C29: the record a callback writes before it reports "Login successful" has
\* access_token and account_id present, so that a dispatch that reads this
\* record is authenticated.
C29_WriteStep ==
    \A c \in DOMAIN cb :
        (cb[c].pc = "persist" /\ cb'[c].pc = "load")
        => (IsSome(tokens'.access_token) /\ IsSome(tokens'.account_id))
C29_SuccessfulLoginHasBoth == [][C29_WriteStep]_vars

\* C30: when every callback and every logout has run to completion the saved
\* record equals the record in memory, and a save that changes the file
\* writes the record that is in memory at that moment.
Quiescent ==
    /\ \A c \in DOMAIN cb : cb[c].pc \in {"idle", "done"}
    /\ \A l \in DOMAIN lo : lo[l].pc \in {"idle", "done"}
C30_SaveStep == saved' # saved => saved' = tokens
C30_SavedIsInMemoryRecord ==
    /\ [](Quiescent => saved = tokens)
    /\ [][C30_SaveStep]_vars

\* C31: the aggregator answers 200 with a completion only when one of the
\* events it took is a response.completed.
C31_SuccessOnlyAfterCompleted ==
    (/\ agg.pc = "done"
     /\ ~stream
     /\ IsSome(reply)
     /\ Unwrap(reply).status = "OK"
     /\ Unwrap(reply).finish_reason = "stop")
    => \E i \in 1..agg.taken : IsCompleted(upstream[i])

\* The delta.content strings of the chunks of sent, concatenated: the
\* non-empty ones in order.
RECURSIVE DeltaContents(_)
DeltaContents(sent) ==
    IF sent = <<>> THEN <<>>
    ELSE (IF ~Head(sent).forwarded /\ IsSome(Head(sent).content)
                /\ Unwrap(Head(sent).content) # ""
          THEN <<Unwrap(Head(sent).content)>> ELSE <<>>) \o DeltaContents(Tail(sent))

\* C32: when the chat stream has translated a sequence of events that holds
\* no response.failed and ends with response.completed, the delta.content of
\* its chunks, concatenated, is the message.content the chat aggregator
\* returns for that sequence.
C32_StreamTextIsAggregateText ==
    (/\ target = "chat"
     /\ upstream # <<>>
     /\ consumed = Len(upstream)
     /\ \A i \in DOMAIN upstream : ~IsFailed(upstream[i])
     /\ IsCompleted(upstream[Len(upstream)]))
    => DeltaContents(out) = AggregateReply(upstream, "chat").text

\* C33: the model name sent upstream is never empty or blank.
C33_ModelNameNeverBlank ==
    norm.pc # "idle" => trim(norm.once) # <<>>

====
